---- MODULE Spec2Model ----
(***************************************************************************)
(* A model of src/bot.py: a Telegram link shortener whose handlers each    *)
(* open their own SQLite connection (aiosqlite.connect), run a few         *)
(* statements and answer.  aiogram runs the handlers of different updates  *)
(* as concurrent tasks, so the statements of two handlers interleave at    *)
(* every await.  SQLite (rollback journal, Python's deferred transactions) *)
(* is modelled by its observable contract: a SELECT reads the committed    *)
(* database; the first write statement of a connection takes the single    *)
(* write lock (waiting while another connection holds it, or giving up     *)
(* with "database is locked" when the busy timeout runs out); the writes   *)
(* of a connection become visible at commit(); a connection closed without *)
(* commit (an exception leaving `async with`) is rolled back.              *)
(*                                                                         *)
(* Timestamps (datetime.now()) and the user's display names are left out   *)
(* of the rows: no statement of the program reads them back.               *)
(***************************************************************************)
EXTENDS Integers, Sequences, FiniteSets, TLC

\* ---------------------------------------------------------------- bounds
MaxHandlers == 2
MaxUsers == 2
MaxIds == 2
\* How many updates whose handler writes (a registration, a submission, a
\* deletion, a folder creation) a run takes; the reading updates are not
\* counted.
MaxWrites == 3

Handlers == 1..MaxHandlers
Users == 1..MaxUsers
\* The identifiers generate_id() can draw, abstracted to a small pool so that
\* two draws can collide.
Ids == 1..MaxIds

\* ---------------------------------------------------------------- texts
\* A message text is a sequence of tokens; " " is a run of whitespace.
Schemes == {"http://", "https://"}
Hosts == {"a.example/page", "b.example"}
Whitespace == {" "}
Texts ==
    { <<"https://", "a.example/page">>,
      <<"http://", "b.example", " ">>,
      <<"https://", "no host">>,
      <<"not-a-url">> }

NoUrl == <<>>

\* F.text.regexp(r'^https?://'): the pattern is anchored at the first character.
regexp_https(text) == Len(text) > 0 /\ text[1] \in Schemes

RECURSIVE lstrip(_)
lstrip(t) == IF t # <<>> /\ Head(t) \in Whitespace THEN lstrip(Tail(t)) ELSE t

RECURSIVE rstrip(_)
rstrip(t) ==
    IF t # <<>> /\ t[Len(t)] \in Whitespace
    THEN rstrip(SubSeq(t, 1, Len(t) - 1))
    ELSE t

\* message.text.strip()
strip(t) == rstrip(lstrip(t))

\* validators.url(url): a scheme followed by a well-formed host and path, and
\* nothing else (no whitespace).
validators_url(u) == Len(u) = 2 /\ u[1] \in Schemes /\ u[2] \in Hosts

\* url.encode(): one code per token.
TokenCode(tok) ==
    CASE tok = "http://" -> 11
      [] tok = "https://" -> 13
      [] tok = "a.example/page" -> 17
      [] tok = "b.example" -> 19
      [] tok = "no host" -> 23
      [] tok = "not-a-url" -> 29
      [] OTHER -> 31

encode(u) == [i \in DOMAIN u |-> TokenCode(u[i])]

\* hashlib.sha256(bytes).hexdigest(), abstracted to a deterministic digest of
\* the byte sequence that is not the sequence itself.
RECURSIVE Digest(_, _)
Digest(bytes, acc) ==
    IF bytes = <<>> THEN acc
    ELSE Digest(Tail(bytes), (acc * 31 + Head(bytes)) % 65536)

sha256_hexdigest(bytes) == Digest(bytes, 7)

\* ------------------------------------------------------------- database
\* init_db: five empty tables.  A table is the sequence of its rows in the
\* order of its primary-key index (no statement of the program relies on an
\* order); the primary key is enforced by the INSERT, not by the
\* representation, which can hold two rows with one key.
init_db ==
    [ meta_data |-> <<>>, user |-> <<>>, short_links |-> <<>>,
      folders |-> <<>>, deleted_links_hash |-> <<>> ]

PrimaryKey(table) ==
    CASE table = "meta_data" -> "id"
      [] table = "user" -> "telegram_id"
      [] table = "short_links" -> "short_id"
      [] table = "folders" -> "folder_id"
      [] table = "deleted_links_hash" -> "hash_id"

\* The rows of a table with value k in column col.
Select(rows, col, k) == SelectSeq(rows, LAMBDA r : r[col] = k)

Count(rows, col, k) == Len(Select(rows, col, k))


\* A user table declared without its primary key.
PrimaryKeyViolation_user_unkeyed(d, table, row) ==
    /\ table # "user"
    /\ Count(d[table], PrimaryKey(table), row[PrimaryKey(table)]) > 0

\* A short_links table declared without its primary key.
PrimaryKeyViolation_links_unkeyed(d, table, row) ==
    /\ table # "short_links"
    /\ Count(d[table], PrimaryKey(table), row[PrimaryKey(table)]) > 0

\* INSERT raises IntegrityError when the table holds a row with the new row's
\* primary key.
PrimaryKeyViolation(d, table, row) ==
    Count(d[table], PrimaryKey(table), row[PrimaryKey(table)]) > 0

\* INSERT INTO table VALUES row
Insert(d, table, row) ==
    LET col == PrimaryKey(table)
    IN [d EXCEPT ![table] =
           SelectSeq(@, LAMBDA r : r[col] <= row[col]) \o <<row>>
               \o SelectSeq(@, LAMBDA r : r[col] > row[col])]

\* DELETE FROM table WHERE col = k
Delete(d, table, col, k) ==
    [d EXCEPT ![table] = SelectSeq(@, LAMBDA r : r[col] # k)]

\* A connection in autocommit mode: every write statement is published at once.
execute_autocommit(d, t) == t

\* aiosqlite.connect(DB_PATH) opens the connection with Python's default
\* isolation level: a write statement runs inside an open transaction, so the
\* committed database d is what it was; t, the connection's working copy, is
\* published by commit() alone.
execute(d, t) == d

\* ---------------------------------------------------------------- state
VARIABLES
    db,      \* the committed database (the file bot_database.db)
    lock,    \* the handler whose connection holds SQLite's write lock, or 0
    tx,      \* tx[h]: the working copy of h's open transaction
    pc,      \* pc[h]: where handler task h stands
    req,     \* req[h]: the update h handles
    loc,     \* loc[h]: h's local variables
    resp,    \* resp[h]: what h answered, or the exception that ended it
    writes,  \* how many writing updates were taken so far
    issued,  \* history: issued[s] is the URL of the last committed
             \* submission that drew short id s, NoUrl once s was deleted
    gen      \* one call of generate_id() spelled out character by character

vars == <<db, lock, tx, pc, req, loc, resp, writes, issued, gen>>

NoReq == [kind |-> "none", user |-> 0, arg |-> 0, text |-> <<>>]
NoLoc == [id |-> 0, url |-> NoUrl, creator |-> 0]
NoResp == [tag |-> "none", url |-> NoUrl, id |-> 0, items |-> <<>>]

\* No call of generate_id() is being spelled out.
NoGen == [site |-> "none", pc |-> "none", out |-> <<>>, varied |-> 0, value |-> ""]

Reply(tag) == [NoResp EXCEPT !.tag = tag]

\* The tags of resp that are messages sent to the user; the others are an
\* update no handler took ("unhandled") and exceptions that left the handler.
Exceptions == {"IntegrityError", "OperationalError"}
Answered(h) == resp[h].tag \notin ({"none", "unhandled"} \cup Exceptions)

Init ==
    /\ db = init_db
    /\ lock = 0
    /\ tx = [h \in Handlers |-> init_db]
    /\ pc = [h \in Handlers |-> "idle"]
    /\ req = [h \in Handlers |-> NoReq]
    /\ loc = [h \in Handlers |-> NoLoc]
    /\ resp = [h \in Handlers |-> NoResp]
    /\ writes = 0
    /\ issued = [s \in Ids |-> NoUrl]
    /\ gen = NoGen

\* generate_id(): any identifier of the pool; no check against the tables.
generate_id == Ids

\* A finished task touches nothing; it is reaped (Finish) before any other
\* step is taken, so that its answer is looked at in the state it was given in.
Quiet == \A h \in Handlers : pc[h] # "done"

\* An update arrives and the dispatcher starts a handler task for it.  The
\* tasks are anonymous: the update takes the first free slot.
Accept(h, kind, p, arg, text) ==
    /\ Quiet
    /\ pc[h] = "idle"
    /\ \A g \in Handlers : g < h => pc[g] # "idle"
    /\ req' = [req EXCEPT ![h] = [kind |-> kind, user |-> p, arg |-> arg, text |-> text]]

\* The update is one whose handler goes on to write.
Writing ==
    /\ writes < MaxWrites
    /\ writes' = writes + 1

\* The handler returns after answering.
Return(h, r) ==
    /\ pc' = [pc EXCEPT ![h] = "done"]
    /\ resp' = [resp EXCEPT ![h] = r]

\* An exception leaves the handler: `async with aiosqlite.connect` closes the
\* connection, which rolls its open transaction back and frees the lock.
Raise(h, exc) ==
    /\ pc' = [pc EXCEPT ![h] = "done"]
    /\ resp' = [resp EXCEPT ![h] = Reply(exc)]
    /\ tx' = [tx EXCEPT ![h] = init_db]
    /\ lock' = IF lock = h THEN 0 ELSE lock
    /\ UNCHANGED <<db, req, loc, writes, issued, gen>>

\* The database a write statement of h's connection works on: its open
\* transaction, or (BEGIN DEFERRED at the first write) the committed database.
Working(h) == IF lock = h THEN tx[h] ELSE db

\* await db.execute("INSERT ..."): waits for the write lock, then inserts into
\* the working copy or raises sqlite3.IntegrityError.
ExecuteInsert(h, table, row, next) ==
    /\ Quiet
    /\ lock \in {0, h}
    /\ IF PrimaryKeyViolation(Working(h), table, row)
       THEN Raise(h, "IntegrityError")
       ELSE /\ tx' = [tx EXCEPT ![h] = Insert(Working(h), table, row)]
            /\ lock' = h
            /\ db' = execute(db, tx'[h])
            /\ pc' = [pc EXCEPT ![h] = next]
            /\ UNCHANGED <<req, loc, resp, writes, issued, gen>>

\* await db.commit(): publishes the working copy and frees the lock.  What
\* follows it in every handler touches no table, so the answer r is sent in
\* the same step.
Commit(h, r) ==
    /\ Quiet
    /\ lock = h
    /\ db' = tx[h]
    /\ tx' = [tx EXCEPT ![h] = init_db]
    /\ lock' = 0
    /\ Return(h, r)
    /\ UNCHANGED writes

\* --------------------------------------------------------------- /start
\* SELECT original_url FROM short_links WHERE short_id = ?, fetchone(), and
\* the answer: the URL of the first row, or "not found".
resolve(d, short_id) ==
    LET rows == Select(d.short_links, "short_id", short_id)
    IN IF rows # <<>>
       THEN [Reply("found") EXCEPT !.url = rows[1].original_url]
       ELSE Reply("not_found")

\* cmd_start with a deep-link argument: resolve it and answer.
cmd_start_deep_link(h, p, short_id) ==
    /\ Accept(h, "start", p, short_id, <<>>)
    /\ Return(h, resolve(db, short_id))
    /\ UNCHANGED <<db, lock, tx, loc, writes, issued, gen>>

\* cmd_start without argument: SELECT telegram_id FROM user; a known user
\* gets the welcome text, an unknown one draws m_id.
cmd_start_select(h, p) ==
    /\ Accept(h, "start", p, 0, <<>>)
    /\ IF Select(db.user, "telegram_id", p) # <<>>
       THEN /\ Return(h, Reply("welcome"))
            /\ UNCHANGED <<loc, writes>>
       ELSE \E m_id \in generate_id :
                /\ Writing
                /\ pc' = [pc EXCEPT ![h] = "insert_meta"]
                /\ loc' = [loc EXCEPT ![h] = [NoLoc EXCEPT !.id = m_id]]
                /\ UNCHANGED resp
    /\ UNCHANGED <<db, lock, tx, issued, gen>>

cmd_start_insert_meta(h) ==
    /\ pc[h] = "insert_meta"
    /\ ExecuteInsert(h, "meta_data",
                     [id |-> loc[h].id, user_tg_reg_date |-> "Unknown",
                      device_meta |-> "Mobile/Desktop", browser |-> "In-App Telegram"],
                     "insert_user")

cmd_start_insert_user(h) ==
    /\ pc[h] = "insert_user"
    /\ ExecuteInsert(h, "user",
                     [telegram_id |-> req[h].user, meta_data_id |-> loc[h].id],
                     "commit_user")

\* commit, then the welcome text.
cmd_start_commit(h) ==
    /\ pc[h] = "commit_user"
    /\ Commit(h, Reply("welcome"))
    /\ UNCHANGED <<req, loc, issued, gen>>

\* ---------------------------------------------------------- text messages
\* A text no filter matches (it does not start with http:// or https://):
\* the dispatcher drops the update and nothing is sent.
dp_unhandled(h, p, text) ==
    /\ ~regexp_https(text)
    /\ Accept(h, "text", p, 0, text)
    /\ Return(h, Reply("unhandled"))
    /\ UNCHANGED <<db, lock, tx, loc, writes, issued, gen>>

\* create_link, validation failed.
create_link_invalid(h, p, text) ==
    /\ regexp_https(text)
    /\ ~validators_url(strip(text))
    /\ Accept(h, "text", p, 0, text)
    /\ Return(h, Reply("validation_error"))
    /\ UNCHANGED <<db, lock, tx, loc, writes, issued, gen>>

\* create_link, validation passed: short_id = generate_id().
create_link_begin(h, p, text) ==
    /\ regexp_https(text)
    /\ validators_url(strip(text))
    /\ Accept(h, "text", p, 0, text)
    /\ \E short_id \in generate_id :
           loc' = [loc EXCEPT ![h] = [NoLoc EXCEPT !.id = short_id, !.url = strip(text)]]
    /\ pc' = [pc EXCEPT ![h] = "insert_link"]
    /\ Writing
    /\ UNCHANGED <<db, lock, tx, resp, issued, gen>>

create_link_insert(h) ==
    /\ pc[h] = "insert_link"
    /\ ExecuteInsert(h, "short_links",
                     [short_id |-> loc[h].id, original_url |-> loc[h].url,
                      creator_id |-> req[h].user, folder_id |-> 0],
                     "commit_link")

\* commit, then bot.get_me() and the answer with the original URL and the
\* deep link https://t.me/<bot>?start=<short_id>.
create_link_commit(h) ==
    /\ pc[h] = "commit_link"
    /\ Commit(h, [Reply("shortened") EXCEPT !.url = loc[h].url, !.id = loc[h].id])
    /\ issued' = [issued EXCEPT ![loc[h].id] = strip(req[h].text)]
    /\ UNCHANGED <<req, loc, gen>>

\* ------------------------------------------------------------- /my_links
\* The characters of a token.
TokenLen(tok) ==
    CASE tok = "http://" -> 7
      [] tok = "https://" -> 8
      [] tok = "a.example/page" -> 14
      [] tok = "b.example" -> 9
      [] tok = "no host" -> 7
      [] tok = "not-a-url" -> 9
      [] OTHER -> 1

\* url[:n]: the tokens that fit whole into the first n characters, and how
\* many characters of the token after them are shown.
RECURSIVE first_chars(_, _)
first_chars(url, n) ==
    IF url = <<>> \/ n <= 0 THEN [tokens |-> <<>>, chars |-> 0]
    ELSE IF TokenLen(Head(url)) > n THEN [tokens |-> <<>>, chars |-> n]
    ELSE LET rest == first_chars(Tail(url), n - TokenLen(Head(url)))
         IN [tokens |-> <<Head(url)>> \o rest.tokens, chars |-> rest.chars]

\* A listing that leaves out the WHERE clause.
select_links_of_all(d, creator_id) == d.short_links

\* SELECT short_id, original_url FROM short_links WHERE creator_id = ?
select_links(d, creator_id) == Select(d.short_links, "creator_id", creator_id)

\* list_links: the caller's rows, each shown with the first 30 characters of
\* its URL and a delete button carrying del_<short_id>.
list_links(h, p) ==
    /\ Accept(h, "my_links", p, 0, <<>>)
    /\ LET links == select_links(db, p)
       IN IF links = <<>>
          THEN Return(h, Reply("no_links"))
          ELSE Return(h, [Reply("links") EXCEPT
                              !.items = [i \in DOMAIN links |->
                                            [short_id |-> links[i].short_id,
                                             url |-> first_chars(links[i].original_url, 30)]]])
    /\ UNCHANGED <<db, lock, tx, loc, writes, issued, gen>>

\* ------------------------------------------------------- del_<short_id>
\* A handler that goes on to the INSERT without looking at what it fetched.
delete_link_select_unchecked(h, p, short_id) ==
    /\ Accept(h, "delete", p, short_id, <<>>)
    /\ Writing
    /\ pc' = [pc EXCEPT ![h] = "insert_hash"]
    /\ loc' = [loc EXCEPT ![h] = [NoLoc EXCEPT !.id = short_id]]
    /\ UNCHANGED <<db, lock, tx, resp, issued, gen>>

\* delete_link_callback: SELECT original_url, creator_id; no row: answer
\* not found.  The caller is not compared with the row's creator.
delete_link_select(h, p, short_id) ==
    /\ Accept(h, "delete", p, short_id, <<>>)
    /\ LET rows == Select(db.short_links, "short_id", short_id)
       IN IF rows = <<>>
          THEN /\ Return(h, Reply("not_found"))
               /\ UNCHANGED <<loc, writes>>
          ELSE /\ Writing
               /\ pc' = [pc EXCEPT ![h] = "insert_hash"]
               /\ loc' = [loc EXCEPT ![h] =
                             [id |-> short_id, url |-> rows[1].original_url,
                              creator |-> rows[1].creator_id]]
               /\ UNCHANGED resp
    /\ UNCHANGED <<db, lock, tx, issued, gen>>

\* url_hash = hashlib.sha256(url.encode()).hexdigest()
url_hash(url) == sha256_hexdigest(encode(url))

\* An audit row that names whoever pressed the button.
deleted_link_values_of_caller(h) ==
    [hash_id |-> req[h].arg, original_url_hash |-> url_hash(loc[h].url),
     creator_id |-> req[h].user]

\* VALUES (short_id, url_hash, now, creator_id): creator_id is the one
\* fetched with the row.
deleted_link_values(h) ==
    [hash_id |-> req[h].arg, original_url_hash |-> url_hash(loc[h].url),
     creator_id |-> loc[h].creator]

delete_link_insert_hash(h) ==
    /\ pc[h] = "insert_hash"
    /\ ExecuteInsert(h, "deleted_links_hash", deleted_link_values(h), "delete_link")

\* A deletion that selects its rows by URL instead of by short id.
delete_short_link_by_url(t, short_id, url) ==
    Delete(t, "short_links", "original_url", url)

\* DELETE FROM short_links WHERE short_id = ?
delete_short_link(t, short_id, url) == Delete(t, "short_links", "short_id", short_id)

delete_link_delete(h) ==
    /\ pc[h] = "delete_link"
    /\ Quiet
    /\ lock = h
    /\ tx' = [tx EXCEPT ![h] = delete_short_link(tx[h], req[h].arg, loc[h].url)]
    /\ db' = execute(db, tx'[h])
    /\ pc' = [pc EXCEPT ![h] = "commit_delete"]
    /\ UNCHANGED <<lock, req, loc, resp, writes, issued, gen>>

\* commit, then callback.answer and edit_text.
delete_link_commit(h) ==
    /\ pc[h] = "commit_delete"
    /\ Commit(h, [Reply("deleted") EXCEPT !.id = req[h].arg])
    /\ issued' = [issued EXCEPT ![req[h].arg] = NoUrl]
    /\ UNCHANGED <<req, loc, gen>>

\* -------------------------------------------------------------- /folders
\* cmd_folders: the caller's folders, or the button that creates one.
\* SELECT folder_id, name FROM folders WHERE creator_id = ?, and the answer:
\* "no_folders" carries the button create_folder_work, "folders" the list only.
list_folders(d, p) ==
    LET folders == Select(d.folders, "creator_id", p)
    IN IF folders = <<>>
       THEN Reply("no_folders")
       ELSE [Reply("folders") EXCEPT
                 !.items = [i \in DOMAIN folders |->
                               [folder_id |-> folders[i].folder_id,
                                name |-> folders[i].name]]]

cmd_folders(h, p) ==
    /\ Accept(h, "folders", p, 0, <<>>)
    /\ Return(h, list_folders(db, p))
    /\ UNCHANGED <<db, lock, tx, loc, writes, issued, gen>>

\* create_folder_example: f_id = generate_id().  The fixed name stands for
\* the source's Cyrillic label.
FolderName == "Rabota"

create_folder_begin(h, p) ==
    /\ Accept(h, "create_folder", p, 0, <<>>)
    /\ \E f_id \in generate_id :
           loc' = [loc EXCEPT ![h] = [NoLoc EXCEPT !.id = f_id]]
    /\ pc' = [pc EXCEPT ![h] = "insert_folder"]
    /\ Writing
    /\ UNCHANGED <<db, lock, tx, resp, issued, gen>>

create_folder_insert(h) ==
    /\ pc[h] = "insert_folder"
    /\ ExecuteInsert(h, "folders",
                     [folder_id |-> loc[h].id, name |-> FolderName,
                      creator_id |-> req[h].user],
                     "commit_folder")

\* commit, then edit_text with the new folder's id.
create_folder_commit(h) ==
    /\ pc[h] = "commit_folder"
    /\ Commit(h, [Reply("folder_created") EXCEPT !.id = loc[h].id])
    /\ UNCHANGED <<req, loc, issued, gen>>

\* ------------------------------------------------------------- scheduling
\* sqlite3's busy timeout (5 s by default) ran out while another connection
\* held the write lock: the INSERT raises OperationalError.
WaitsForLock(h) ==
    pc[h] \in {"insert_meta", "insert_link", "insert_hash", "insert_folder"}

database_is_locked(h) ==
    /\ WaitsForLock(h)
    /\ Quiet
    /\ lock \notin {0, h}
    /\ Raise(h, "OperationalError")

\* The handler task is over; its slot takes the next update.
Finish(h) ==
    /\ pc[h] = "done"
    /\ pc' = [pc EXCEPT ![h] = "idle"]
    /\ req' = [req EXCEPT ![h] = NoReq]
    /\ loc' = [loc EXCEPT ![h] = NoLoc]
    /\ resp' = [resp EXCEPT ![h] = NoResp]
    /\ UNCHANGED <<db, lock, tx, writes, issued, gen>>

Next ==
    \E h \in Handlers :
        \/ \E p \in Users, s \in Ids : cmd_start_deep_link(h, p, s)
        \/ \E p \in Users : cmd_start_select(h, p)
        \/ cmd_start_insert_meta(h)
        \/ cmd_start_insert_user(h)
        \/ cmd_start_commit(h)
        \/ \E p \in Users, text \in Texts : dp_unhandled(h, p, text)
        \/ \E p \in Users, text \in Texts : create_link_invalid(h, p, text)
        \/ \E p \in Users, text \in Texts : create_link_begin(h, p, text)
        \/ create_link_insert(h)
        \/ create_link_commit(h)
        \/ \E p \in Users : list_links(h, p)
        \/ \E p \in Users, s \in Ids : delete_link_select(h, p, s)
        \/ delete_link_insert_hash(h)
        \/ delete_link_delete(h)
        \/ delete_link_commit(h)
        \/ \E p \in Users : cmd_folders(h, p)
        \/ \E p \in Users : create_folder_begin(h, p)
        \/ create_folder_insert(h)
        \/ create_folder_commit(h)
        \/ database_is_locked(h)
        \/ Finish(h)

Spec == Init /\ [][Next]_vars

\* ------------------------------------------------------- generate_id()
\* The identifier itself.  The handlers above rely on nothing but equality of
\* identifiers; here one call is followed character by character.

\* def generate_id(length=12); every caller takes the default.
length == 12

\* How many of the characters of one call are drawn freely from chars; the
\* remaining draws give chars[1].
MaxVaried == 1

ascii_lowercase ==
    <<"a", "b", "c", "d", "e", "f", "g", "h", "i", "j", "k", "l", "m",
      "n", "o", "p", "q", "r", "s", "t", "u", "v", "w", "x", "y", "z">>
ascii_uppercase ==
    <<"A", "B", "C", "D", "E", "F", "G", "H", "I", "J", "K", "L", "M",
      "N", "O", "P", "Q", "R", "S", "T", "U", "V", "W", "X", "Y", "Z">>
ascii_letters == ascii_lowercase \o ascii_uppercase
digits == <<"0", "1", "2", "3", "4", "5", "6", "7", "8", "9">>

\* The alphabet of URL-safe tokens (secrets.token_urlsafe), taken for chars.
chars_urlsafe == ascii_letters \o digits \o <<"-", "_">>

\* chars = string.ascii_letters + string.digits
chars == ascii_letters \o digits

\* ''.join(parts)
RECURSIVE join(_)
join(parts) == IF parts = <<>> THEN "" ELSE Head(parts) \o join(Tail(parts))

\* The callers: m_id in cmd_start, short_id in create_link, f_id in
\* create_folder_example.
CallSites == {"meta_data", "short_links", "folders"}

InitGen ==
    /\ db = init_db
    /\ lock = 0
    /\ tx = [h \in Handlers |-> init_db]
    /\ pc = [h \in Handlers |-> "idle"]
    /\ req = [h \in Handlers |-> NoReq]
    /\ loc = [h \in Handlers |-> NoLoc]
    /\ resp = [h \in Handlers |-> NoResp]
    /\ writes = 0
    /\ issued = [s \in Ids |-> NoUrl]
    /\ \E site \in CallSites : gen = [NoGen EXCEPT !.site = site, !.pc = "for"]

\* One round of `for _ in range(length)`: secrets.choice(chars) gives
\* chars[k] for a random position k.
generate_id_choice(k) ==
    /\ gen.pc = "for"
    /\ Len(gen.out) < length
    /\ k \in DOMAIN chars
    /\ k = 1 \/ gen.varied < MaxVaried
    /\ gen' = [gen EXCEPT !.out = Append(@, chars[k]),
                          !.varied = IF k = 1 THEN @ ELSE @ + 1]
    /\ UNCHANGED <<db, lock, tx, pc, req, loc, resp, writes, issued>>

\* range(length) is used up: the characters are joined and returned.
generate_id_return ==
    /\ gen.pc = "for"
    /\ Len(gen.out) = length
    /\ gen' = [gen EXCEPT !.pc = "return", !.value = join(gen.out)]
    /\ UNCHANGED <<db, lock, tx, pc, req, loc, resp, writes, issued>>

NextGen ==
    \/ \E k \in DOMAIN chars : generate_id_choice(k)
    \/ generate_id_return

SpecGen == InitGen /\ [][NextGen]_vars

\* ================================================================ claims
\* Shorthands of the claims below.
Done(h) == pc[h] = "done"
LinkRows(s) == Select(db.short_links, "short_id", s)
HashRows(s) == Select(db.deleted_links_hash, "hash_id", s)
UserRows(p) == Select(db.user, "telegram_id", p)
\* The handler read a short_links row before it went on.
ReadRow(h) == req[h].kind = "delete" /\ loc[h].url # NoUrl

\* C1: round trip.  While the last committed submission that drew short id s
\* has not been followed by a deletion of s (issued[s] is its URL), a start
\* with argument s answers exactly that URL, whatever other submissions and
\* deletions happened; and a submission answers with the URL it stored.
C1_RoundTrip ==
    /\ \A s \in Ids :
           issued[s] # NoUrl => resolve(db, s) = [Reply("found") EXCEPT !.url = issued[s]]
    /\ \A h \in Handlers :
           Done(h) =>
               /\ (req[h].kind = "start" /\ req[h].arg # 0 /\ issued[req[h].arg] # NoUrl)
                      => (resp[h].tag = "found" /\ resp[h].url = issued[req[h].arg])
               /\ resp[h].tag = "shortened"
                      => (resp[h].url = strip(req[h].text) /\ issued[resp[h].id] = resp[h].url)

\* C1 witness: a start with s answered the submitted URL after another short
\* id that carried the same URL was deleted.
C1_Witness ==
    \E h \in Handlers :
        /\ Done(h) /\ req[h].kind = "start" /\ resp[h].tag = "found"
        /\ \E s \in Ids \ {req[h].arg} :
               /\ HashRows(s) # <<>>
               /\ HashRows(s)[1].original_url_hash = url_hash(resp[h].url)

\* C2 (as claimed): every deletion that found the row of s, with URL u, and
\* did not run into the busy timeout ends with the confirmation, s resolving
\* to "not found", no short_links row of s, and exactly one deleted_links_hash
\* row keyed s, whose digest is SHA-256(u).
C2_DeleteCompletes ==
    \A h \in Handlers :
        (Done(h) /\ ReadRow(h) /\ resp[h].tag # "OperationalError")
            => /\ resp[h].tag = "deleted"
               /\ resolve(db, req[h].arg).tag = "not_found"
               /\ LinkRows(req[h].arg) = <<>>
               /\ Len(HashRows(req[h].arg)) = 1
               /\ HashRows(req[h].arg)[1].original_url_hash = url_hash(loc[h].url)

\* C3 (as claimed): a deletion that read the row of s and then lost the race
\* to another deletion of s answers "not found", and one deleted_links_hash
\* row keyed s is left.
C3_SecondDeleteNotFound ==
    \A h \in Handlers :
        (Done(h) /\ ReadRow(h) /\ resp[h].tag \notin {"deleted", "OperationalError"})
            => (resp[h].tag = "not_found" /\ Len(HashRows(req[h].arg)) = 1)

\* C4: deletion is atomic.  In every step, the committed database gains a
\* deleted_links_hash row keyed s exactly when it loses the short_links row of
\* s: no committed state holds one write of a deletion without the other.
C4_DeleteAtomic ==
    [][\A s \in Ids :
           (Len(HashRows(s)') > Len(HashRows(s)))
               <=> (LinkRows(s) # <<>> /\ LinkRows(s)' = <<>>)]_vars

\* C4 witness: a deletion committed (hash row there, link row gone), and so
\* did not only fail.
C4_Witness ==
    \E h \in Handlers :
        /\ Done(h) /\ req[h].kind = "delete" /\ resp[h].tag = "deleted"
        /\ Len(HashRows(req[h].arg)) = 1
        /\ LinkRows(req[h].arg) = <<>>

\* C5: a deletion of a short id that has no short_links row answers "not
\* found" in its one step, raises nothing and leaves the five tables as they
\* were (so a second deletion of a deleted id adds no deleted_links_hash row).
C5_DeleteAbsent ==
    [][\A h \in Handlers :
           (/\ pc[h] = "idle" /\ pc'[h] # "idle"
            /\ req'[h].kind = "delete"
            /\ LinkRows(req'[h].arg) = <<>>)
               => (db' = db /\ pc'[h] = "done" /\ resp'[h].tag = "not_found")]_vars

\* C5 witness: the second deletion of a deleted id answered "not found".
C5_Witness ==
    \E h \in Handlers :
        /\ Done(h) /\ req[h].kind = "delete" /\ resp[h].tag = "not_found"
        /\ Len(HashRows(req[h].arg)) = 1

\* C6: the committed user table never holds two rows of one platform id,
\* however the exists-checks and inserts of concurrent registrations interleave.
C6_OneUserRow == \A p \in Users : Len(UserRows(p)) <= 1

\* C6 witness: a registration passed its exists-check, then found the user
\* row of a concurrent registration at its INSERT INTO user and raised.
C6_Witness ==
    \E h \in Handlers :
        /\ Done(h) /\ req[h].kind = "start" /\ req[h].arg = 0
        /\ resp[h].tag = "IntegrityError"
        /\ Select(db.meta_data, "id", loc[h].id) = <<>>
        /\ Len(UserRows(req[h].user)) = 1

\* C7 (as claimed): every text that fails the URL validation, with or without
\* the http(s):// prefix, is answered with the validation error.
C7_InvalidAnswered ==
    \A h \in Handlers :
        (Done(h) /\ req[h].kind = "text" /\ ~validators_url(strip(req[h].text)))
            => resp[h].tag = "validation_error"

\* C8: short ids are unique among the short_links rows, and an INSERT whose
\* generated short id is the id of a committed row changes no table: it
\* raises IntegrityError (OperationalError if it never got the write lock).
C8_NoOverwrite ==
    /\ [](\A s \in Ids : Len(LinkRows(s)) <= 1)
    /\ [][\A h \in Handlers :
              (/\ pc[h] = "insert_link" /\ pc'[h] # "insert_link"
               /\ LinkRows(loc[h].id) # <<>>)
                  => /\ db' = db
                     /\ resp'[h].tag =
                            IF lock = 0 THEN "IntegrityError" ELSE "OperationalError"]_vars

\* C8 witness: a submission raised IntegrityError on a short id whose row,
\* another user's submission of another URL, is still what it was.
C8_Witness ==
    \E h \in Handlers :
        /\ Done(h) /\ req[h].kind = "text" /\ resp[h].tag = "IntegrityError"
        /\ Len(LinkRows(loc[h].id)) = 1
        /\ LinkRows(loc[h].id)[1].original_url # loc[h].url
        /\ LinkRows(loc[h].id)[1].creator_id # req[h].user
        /\ issued[loc[h].id] = LinkRows(loc[h].id)[1].original_url

\* C9 (as claimed): an update that ends in "not found", a validation error or
\* a constraint violation is answered with a message.
C9_ErrorsAnswered ==
    \A h \in Handlers :
        (Done(h) /\ resp[h].tag \in {"not_found", "validation_error", "IntegrityError"})
            => Answered(h)

\* C10 (as claimed): once an update of platform id p was answered, p has
\* exactly one user row; and every creator of a short_links or folders row has
\* a user row.
C10_UserAtFirstContact ==
    /\ \A h \in Handlers :
           (Done(h) /\ Answered(h)) => Len(UserRows(req[h].user)) = 1
    /\ \A i \in DOMAIN db.short_links : UserRows(db.short_links[i].creator_id) # <<>>
    /\ \A i \in DOMAIN db.folders : UserRows(db.folders[i].creator_id) # <<>>

\* C11: the answer to /my_links of platform id p lists exactly the
\* short_links rows whose creator is p, each once and with the beginning of
\* its URL: no row of another creator, no deleted row, and "no links" exactly
\* when p has no row.
C11_ListExactlyOwn ==
    \A h \in Handlers :
        (Done(h) /\ req[h].kind = "my_links")
            => LET own == {i \in DOMAIN db.short_links :
                               db.short_links[i].creator_id = req[h].user}
                   items == resp[h].items
               IN /\ resp[h].tag = IF own = {} THEN "no_links" ELSE "links"
                  /\ Len(items) = Cardinality(own)
                  /\ {items[j].short_id : j \in DOMAIN items}
                         = {db.short_links[i].short_id : i \in own}
                  /\ \A j \in DOMAIN items :
                         \E i \in own :
                             /\ db.short_links[i].short_id = items[j].short_id
                             /\ items[j].url.tokens =
                                    SubSeq(db.short_links[i].original_url, 1,
                                           Len(items[j].url.tokens))

\* C11 witness: p created two links and deleted one; the listing shows the
\* one that remains.
C11_Witness ==
    \E h \in Handlers :
        /\ Done(h) /\ req[h].kind = "my_links" /\ Len(resp[h].items) = 1
        /\ \E i \in DOMAIN db.deleted_links_hash :
               /\ db.deleted_links_hash[i].creator_id = req[h].user
               /\ db.deleted_links_hash[i].hash_id # resp[h].items[1].short_id

\* The folders rows of platform id p.
OwnFolders(p) == Select(db.folders, "creator_id", p)

\* C12 (as claimed): /folders offers the create button exactly when the
\* caller owns no folders row; and when a caller who owns none presses it,
\* the INSERT goes through and the commit leaves exactly one folders row of
\* the caller, with the fixed name, which /folders then lists without the
\* button.
C12_CreateFolderOnce ==
    /\ [](\A h \in Handlers :
              (Done(h) /\ req[h].kind = "folders")
                  => (resp[h].tag = "no_folders" <=> OwnFolders(req[h].user) = <<>>))
    /\ [][\A h \in Handlers :
              (/\ pc[h] = "insert_folder" /\ pc'[h] # "insert_folder"
               /\ lock = 0
               /\ OwnFolders(req[h].user) = <<>>)
                  => pc'[h] = "commit_folder"]_vars
    /\ [][\A h \in Handlers :
              (/\ pc[h] = "commit_folder" /\ pc'[h] = "done"
               /\ OwnFolders(req[h].user) = <<>>)
                  => /\ resp'[h].tag = "folder_created"
                     /\ Len(OwnFolders(req[h].user)') = 1
                     /\ OwnFolders(req[h].user)'[1].name = FolderName
                     /\ list_folders(db', req[h].user).tag = "folders"
                     /\ list_folders(db', req[h].user).items[1].folder_id = resp'[h].id]_vars

\* The letters and digits, written out as sets.
Alphanumeric ==
    {"a", "b", "c", "d", "e", "f", "g", "h", "i", "j", "k", "l", "m",
     "n", "o", "p", "q", "r", "s", "t", "u", "v", "w", "x", "y", "z"}
    \cup
    {"A", "B", "C", "D", "E", "F", "G", "H", "I", "J", "K", "L", "M",
     "N", "O", "P", "Q", "R", "S", "T", "U", "V", "W", "X", "Y", "Z"}
    \cup
    {"0", "1", "2", "3", "4", "5", "6", "7", "8", "9"}

\* C13: every call of generate_id(), from any of its three callers, returns a
\* string of exactly 12 characters, each of them one of the 62 letters and
\* digits; and each of the 62 can be drawn.
C13_TwelveAlphanumeric ==
    /\ Cardinality(Alphanumeric) = 62
    /\ {chars[k] : k \in DOMAIN chars} = Alphanumeric
    /\ gen.pc = "return"
           => /\ Len(gen.value) = 12
              /\ Len(gen.out) = 12
              /\ \A i \in DOMAIN gen.out : gen.out[i] \in Alphanumeric

\* A folder id has been returned whose last character is the digit 9.
C13_Witness ==
    /\ gen.pc = "return"
    /\ gen.site = "folders"
    /\ gen.value = "aaaaaaaaaaa9"

\* The meta_data rows with identifier m, and the user rows that refer to m.
MetaRows(m) == Select(db.meta_data, "id", m)
UsersOfMeta(m) == Select(db.user, "meta_data_id", m)

\* C14: registration is all-or-nothing.  In every committed database every
\* user row refers to exactly one meta_data row and every meta_data row is
\* referred to by exactly one user row; and when INSERT INTO user fails after
\* the INSERT INTO meta_data of the same /start went through, no meta_data
\* row with the drawn m_id is left in the database.
C14_RegistrationAllOrNothing ==
    /\ [](/\ \A i \in DOMAIN db.user :
                 Len(MetaRows(db.user[i].meta_data_id)) = 1
          /\ \A j \in DOMAIN db.meta_data :
                 Len(UsersOfMeta(db.meta_data[j].id)) = 1)
    /\ [][\A h \in Handlers :
              (pc[h] = "insert_user" /\ resp'[h].tag = "IntegrityError")
                  => Select(db'.meta_data, "id", loc[h].id) = <<>>]_vars

\* A /start lost the race for its platform id: the other registration is
\* committed with its meta_data row, this one ended at INSERT INTO user and
\* the m_id it had inserted is in no row.
C14_Witness ==
    \E h \in Handlers :
        /\ Done(h) /\ req[h].kind = "start"
        /\ resp[h].tag = "IntegrityError"
        /\ UserRows(req[h].user) # <<>>
        /\ Len(db.meta_data) = 1
        /\ MetaRows(loc[h].id) = <<>>

\* C15: del_<short_id> does not look at who pressed the button.  With any
\* caller the handler goes on to the deletion exactly when the short_links
\* row exists, its INSERT goes through exactly when the short id has no
\* deleted_links_hash row, its commit answers "deleted", removes the row and leaves one
\* deleted_links_hash row whose creator_id is the creator of the removed
\* row, whoever the caller is.
C15_DeleteByAnyoneKeepsCreator ==
    /\ [][\A h \in Handlers :
              (pc[h] = "idle" /\ req'[h].kind = "delete")
                  => /\ pc'[h] = "insert_hash" <=> LinkRows(req'[h].arg) # <<>>
                     /\ pc'[h] # "insert_hash" => resp'[h].tag = "not_found"
                     /\ pc'[h] = "insert_hash"
                            => loc'[h].creator = LinkRows(req'[h].arg)[1].creator_id]_vars
    /\ [][\A h \in Handlers :
              (/\ pc[h] = "insert_hash" /\ pc'[h] # "insert_hash"
               /\ resp'[h].tag # "OperationalError")
                  => pc'[h] = "delete_link" <=> HashRows(req[h].arg) = <<>>]_vars
    /\ [][\A h \in Handlers :
              (pc[h] = "commit_delete" /\ pc'[h] = "done")
                  => /\ resp'[h].tag = "deleted"
                     /\ LinkRows(req[h].arg) # <<>>
                     /\ LinkRows(req[h].arg)' = <<>>
                     /\ Len(HashRows(req[h].arg)') = 1
                     /\ HashRows(req[h].arg)'[1].creator_id
                            = LinkRows(req[h].arg)[1].creator_id]_vars

\* Somebody else's link was deleted: the answer is "deleted" and the audit
\* row names the creator, who is not the caller.
C15_Witness ==
    \E h \in Handlers :
        /\ Done(h) /\ req[h].kind = "delete"
        /\ resp[h].tag = "deleted"
        /\ HashRows(req[h].arg) # <<>>
        /\ HashRows(req[h].arg)[1].creator_id # req[h].user
        /\ LinkRows(req[h].arg) = <<>>

\* C16: once platform id p has its user row and the meta_data row it refers
\* to, no step of any handler changes or removes either of them.
C16_RegistrationFrozen ==
    [][\A p \in Users :
           UserRows(p) # <<>>
               => /\ Select(db'.user, "telegram_id", p) = UserRows(p)
                  /\ Len(MetaRows(UserRows(p)[1].meta_data_id)) = 1
                  /\ Select(db'.meta_data, "id", UserRows(p)[1].meta_data_id)
                         = MetaRows(UserRows(p)[1].meta_data_id)]_vars

\* A registered user sent /start again: it was answered with the welcome
\* text without an m_id being drawn, and the two rows are there.
C16_Witness ==
    \E h \in Handlers :
        /\ Done(h) /\ req[h].kind = "start" /\ req[h].arg = 0
        /\ resp[h].tag = "welcome" /\ loc[h].id = 0
        /\ Len(UserRows(req[h].user)) = 1
        /\ Len(MetaRows(UserRows(req[h].user)[1].meta_data_id)) = 1

====
